---- MODULE Spec2Model ----
(***************************************************************************)
(* CSV Splitter (src/App.tsx, src/components/FileUpload.tsx).              *)
(*                                                                         *)
(* The App component holds five pieces of React state (sourceFile,         *)
(* generatedFiles, isLoading, isZipping, error) and four handlers          *)
(* (handleFileSelect, clearFile, processCsvFile, downloadAllAsZip).        *)
(* processCsvFile and downloadAllAsZip are async: each `await` is a point  *)
(* where other handlers may run, so each is split at its awaits.           *)
(*                                                                         *)
(* JavaScript strings are TLA+ strings; TLC evaluates Len, Head, Tail,     *)
(* SubSeq and \o on them character by character.  A value that may be      *)
(* null/undefined is the empty set (Null) or a singleton (Some(v)).        *)
(*                                                                         *)
(* FileReader, PapaParse and JSZip are external: what they hand back is a  *)
(* nondeterministic choice over a bounded set of well-formed results.      *)
(***************************************************************************)
EXTENDS Integers, Sequences, FiniteSets, TLC

(***************************************************************************)
(* Bounds of the model.                                                    *)
(***************************************************************************)
\* largest number of data rows a parse attempt returns
MaxRows == 2
\* largest length of a group key handed to sanitizeFilename on its own
MaxLen == 3

(***************************************************************************)
(* null / undefined                                                        *)
(***************************************************************************)
Null == {}
Some(v) == {v}
The(opt) == CHOOSE v \in opt : TRUE

(***************************************************************************)
(* Characters and JavaScript string primitives                             *)
(***************************************************************************)
\* characters matched by a-z under the i flag, i.e. a-z and A-Z
AsciiLower == "abcdefghijklmnopqrstuvwxyz"
AsciiUpper == "ABCDEFGHIJKLMNOPQRSTUVWXYZ"
DigitChars == "0123456789"
\* \s of the regular expressions and the white space of String.prototype.trim
WhitespaceChars == " \t"

RECURSIVE Contains(_, _)
Contains(s, c) ==
    IF s = "" THEN FALSE
    ELSE IF Head(s) = c THEN TRUE ELSE Contains(Tail(s), c)

IsAsciiLetter(c) == Contains(AsciiLower, c) \/ Contains(AsciiUpper, c)
IsDigit(c)       == Contains(DigitChars, c)
IsWhitespace(c)  == Contains(WhitespaceChars, c)

Last(s)  == SubSeq(s, Len(s), Len(s))
Front(s) == SubSeq(s, 1, Len(s) - 1)

RECURSIVE TrimStart(_)
TrimStart(s) ==
    IF s = "" THEN ""
    ELSE IF IsWhitespace(Head(s)) THEN TrimStart(Tail(s)) ELSE s

RECURSIVE TrimEnd(_)
TrimEnd(s) ==
    IF s = "" THEN ""
    ELSE IF IsWhitespace(Last(s)) THEN TrimEnd(Front(s)) ELSE s

\* String.prototype.trim
Trim(s) == TrimEnd(TrimStart(s))

\* position of c in s (1-based), 0 when absent
RECURSIVE IndexOf(_, _)
IndexOf(s, c) ==
    IF s = "" THEN 0
    ELSE IF Head(s) = c THEN 1
    ELSE LET r == IndexOf(Tail(s), c) IN IF r = 0 THEN 0 ELSE r + 1

\* String.prototype.toLowerCase on the characters of the model
RECURSIVE ToLowerCase(_)
ToLowerCase(s) ==
    IF s = "" THEN ""
    ELSE LET c == Head(s)
             i == IndexOf(AsciiUpper, c)
         IN  (IF i = 0 THEN c ELSE SubSeq(AsciiLower, i, i)) \o ToLowerCase(Tail(s))

\* String.prototype.endsWith
EndsWith(s, suffix) ==
    /\ Len(s) >= Len(suffix)
    /\ SubSeq(s, Len(s) - Len(suffix) + 1, Len(s)) = suffix

\* Number -> String for the non-negative integers of the model
RECURSIVE NumberToString(_)
NumberToString(n) ==
    IF n < 10 THEN SubSeq(DigitChars, n + 1, n + 1)
    ELSE NumberToString(n \div 10) \o SubSeq(DigitChars, (n % 10) + 1, (n % 10) + 1)

\* s < t for strings of equal length, character by character
RECURSIVE LexLess(_, _)
LexLess(s, t) ==
    IF s = "" THEN FALSE
    ELSE IF Head(s) = Head(t) THEN LexLess(Tail(s), Tail(t))
    ELSE IndexOf(DigitChars, Head(s)) < IndexOf(DigitChars, Head(t))

\* numeric order of two strings of decimal digits without leading zeros
NumericLess(s, t) ==
    Len(s) < Len(t) \/ (Len(s) = Len(t) /\ LexLess(s, t))

RECURSIVE AllDigits(_)
AllDigits(s) ==
    IF s = "" THEN TRUE ELSE IsDigit(Head(s)) /\ AllDigits(Tail(s))

(***************************************************************************)
(* sanitizeFilename (src/App.tsx:35-37)                                    *)
(*   name.replace(/[^a-z0-9\s-]/gi, '').replace(/\s+/g, '_').trim()+'.csv' *)
(***************************************************************************)
\* faulty variant: the class also lets the underscore through
IsKeptCharOrUnderscore(c) ==
    IsAsciiLetter(c) \/ IsDigit(c) \/ IsWhitespace(c) \/ c = "-" \/ c = "_"

\* a character the class [^a-z0-9\s-] with the i flag does not match
IsKeptChar(c) == IsAsciiLetter(c) \/ IsDigit(c) \/ IsWhitespace(c) \/ c = "-"

\* .replace(/[^a-z0-9\s-]/gi, '')
RECURSIVE RemoveDisallowed(_)
RemoveDisallowed(s) ==
    IF s = "" THEN ""
    ELSE (IF IsKeptChar(Head(s)) THEN Head(s) ELSE "") \o RemoveDisallowed(Tail(s))

\* faulty variant: every white space character becomes a "_" of its own
RECURSIVE CollapseEachWhitespace(_)
CollapseEachWhitespace(s) ==
    IF s = "" THEN ""
    ELSE (IF IsWhitespace(Head(s)) THEN "_" ELSE Head(s))
             \o CollapseEachWhitespace(Tail(s))

\* .replace(/\s+/g, '_'): every maximal run of white space becomes one "_"
RECURSIVE CollapseWhitespace(_)
CollapseWhitespace(s) ==
    IF s = "" THEN ""
    ELSE IF IsWhitespace(Head(s)) THEN "_" \o CollapseWhitespace(TrimStart(s))
    ELSE Head(s) \o CollapseWhitespace(Tail(s))

sanitizeFilename(name) ==
    Trim(CollapseWhitespace(RemoveDisallowed(name))) \o ".csv"

(***************************************************************************)
(* Rows, parse results and the pure steps of processCsvFile                *)
(*                                                                         *)
(* A row is the object PapaParse builds with header: true: a function from *)
(* the header names it holds to cell strings.  A row shorter than the      *)
(* header line lacks the keys of the trailing columns.  Only the candidate *)
(* grouping columns are kept; other columns never reach a decision.         *)
(***************************************************************************)
possibleColumnNames ==
    << "Nome da operadora:", "Nome do restaurante:", "Nome da empresa:" >>

Operadora   == possibleColumnNames[1]
Restaurante == possibleColumnNames[2]
Empresa     == possibleColumnNames[3]

\* a row that holds none of the candidate columns
EmptyRow == [c \in {} |-> ""]

\* cells of the "Nome da operadora:" column of a file of operator names:
\* blank, padded with white space, with punctuation
NameCells == { " ", "A", " A\t", "A!" }

\* cells of the "Nome da operadora:" column of a file of operator codes:
\* digit strings and a word that is also a property of every object
CodeCells == { "A", "2", "10", "constructor" }

\* rows of a file whose only candidate column is "Nome da operadora:"; the
\* empty row is a record with fewer fields than the header
OperadoraRows == { Operadora :> v : v \in NameCells } \cup { EmptyRow }
CodeRows      == { Operadora :> v : v \in CodeCells }

\* rows of a file with the columns empresa, restaurante, operadora (in that
\* order): rows of one, two and three fields
MultiColumnRows ==
    { Empresa :> "A",
      Empresa :> "A" @@ Restaurante :> "",
      Empresa :> "B" @@ Restaurante :> "A",
      Empresa :> "B" @@ Restaurante :> "a",
      Empresa :> "A" @@ Restaurante :> "B" @@ Operadora :> "2" }

\* rows of a file without any candidate column
OtherRows == { EmptyRow }

SeqsUpTo(S, n) == UNION { [1..k -> S] : k \in 0..n }

DataSets ==
    SeqsUpTo(OperadoraRows, MaxRows) \cup SeqsUpTo(CodeRows, MaxRows)
        \cup SeqsUpTo(MultiColumnRows, MaxRows) \cup SeqsUpTo(OtherRows, MaxRows)

\* records of results.errors; the row index is absent from some of them
TooFewFields ==
    [message |-> "Too few fields: expected 3 fields but parsed 1", row |-> 0]
UndetectableDelimiter ==
    [message |-> "Unable to auto-detect delimiting character; defaulted to ','"]
ErrorLists == { <<>>, <<TooFewFields, UndetectableDelimiter>> }

\* what a rejected parseWithEncoding promise carries
NoReason       == [instanceofError |-> FALSE, message |-> ""]
ReadFailure    == [instanceofError |-> TRUE, message |-> "Could not read file content."]
ReaderOnError  == [instanceofError |-> FALSE, message |-> "ProgressEvent"]
RejectReasons  == { ReadFailure, ReaderOnError }

\* the settled promise of one parseWithEncoding call
Resolved(data, errors) ==
    [resolved |-> TRUE, data |-> data, errors |-> errors, reason |-> NoReason]
Rejected(reason) ==
    [resolved |-> FALSE, data |-> <<>>, errors |-> <<>>, reason |-> reason]

ParseOutcomes ==
    { Resolved(d, e) : d \in DataSets, e \in ErrorLists }
        \cup { Rejected(r) : r \in RejectReasons }

\* faulty variant: a candidate counts only when its cell is not empty
RECURSIVE FindNameWithValue(_, _)
FindNameWithValue(names, row) ==
    IF names = <<>> THEN Null
    ELSE IF Head(names) \in DOMAIN row /\ row[Head(names)] # ""
         THEN Some(Head(names))
    ELSE FindNameWithValue(Tail(names), row)

\* Array.prototype.find over a sequence of names
RECURSIVE FindName(_, _)
FindName(names, row) ==
    IF names = <<>> THEN Null
    ELSE IF Head(names) \in DOMAIN row THEN Some(Head(names))
    ELSE FindName(Tail(names), row)

findGroupingColumn(data) ==
    IF Len(data) = 0 THEN Null ELSE FindName(possibleColumnNames, data[1])

\* names every object literal inherits from Object.prototype
ObjectPrototypeNames ==
    { "constructor", "toString", "toLocaleString", "valueOf", "hasOwnProperty",
      "isPrototypeOf", "propertyIsEnumerable", "__proto__",
      "__defineGetter__", "__defineSetter__", "__lookupGetter__",
      "__lookupSetter__" }

\* the accumulator of the reduce: the own properties of acc in insertion
\* order, each holding the rows pushed so far (a row is referred to by its
\* index in results.data), and whether a call of the callback threw
EmptyAcc == [threw |-> FALSE, props |-> <<>>]

HasOwn(props, key) == \E i \in 1..Len(props) : props[i].key = key

Push(props, key, r) ==
    [i \in 1..Len(props) |->
        IF props[i].key = key
        THEN [key |-> key, rows |-> Append(props[i].rows, r)]
        ELSE props[i]]

\* faulty variant: the raw cell is the group name, without trim()
GroupRowUntrimmed(acc, data, col, r) ==
    IF acc.threw \/ col \notin DOMAIN data[r] THEN acc
    ELSE LET groupName == data[r][col] IN
         IF groupName = "" THEN acc
         ELSE IF HasOwn(acc.props, groupName)
              THEN [acc EXCEPT !.props = Push(@, groupName, r)]
         ELSE IF groupName \in ObjectPrototypeNames
              THEN [acc EXCEPT !.threw = TRUE]
         ELSE [acc EXCEPT !.props =
                    Append(@, [key |-> groupName, rows |-> <<r>>])]

\* one call of the reduce callback on row r of data
GroupRow(acc, data, col, r) ==
    IF acc.threw \/ col \notin DOMAIN data[r] THEN acc
    ELSE LET groupName == Trim(data[r][col]) IN
         IF groupName = "" THEN acc
         ELSE IF HasOwn(acc.props, groupName)
              THEN [acc EXCEPT !.props = Push(@, groupName, r)]
         ELSE IF groupName \in ObjectPrototypeNames
              \* acc[groupName] is the inherited value: truthy, without push
              THEN [acc EXCEPT !.threw = TRUE]
         ELSE [acc EXCEPT !.props =
                    Append(@, [key |-> groupName, rows |-> <<r>>])]

RECURSIVE GroupRows(_, _, _, _)
GroupRows(acc, data, col, r) ==
    IF r > Len(data) THEN acc
    ELSE GroupRows(GroupRow(acc, data, col, r), data, col, r + 1)

\* results.data.reduce(..., {})
groupedByValue(data, col) == GroupRows(EmptyAcc, data, col, 1)

\* an integer index in the sense of the property order of objects
IsArrayIndex(key) ==
    /\ key # ""
    /\ AllDigits(key)
    /\ (Len(key) = 1 \/ Head(key) # "0")
    /\ NumericLess(key, "4294967295")

RECURSIVE InsertByIndex(_, _)
InsertByIndex(sorted, p) ==
    IF sorted = <<>> THEN <<p>>
    ELSE IF NumericLess(p.key, Head(sorted).key)
         THEN <<p>> \o sorted
    ELSE <<Head(sorted)>> \o InsertByIndex(Tail(sorted), p)

RECURSIVE SortByIndex(_)
SortByIndex(props) ==
    IF props = <<>> THEN <<>>
    ELSE InsertByIndex(SortByIndex(Front(props)), props[Len(props)])

IndexProp(p) == IsArrayIndex(p.key)
NameProp(p)  == ~IsArrayIndex(p.key)

\* Object.entries: integer indices ascending, then the other keys in
\* insertion order
ObjectEntries(props) ==
    SortByIndex(SelectSeq(props, IndexProp)) \o SelectSeq(props, NameProp)

\* Papa.unparse of an array of row objects: the header is the key set of the
\* first object, every record is read through that header
PapaUnparse(rows) ==
    LET fields == IF rows = <<>> THEN {} ELSE DOMAIN rows[1] IN
    [fields  |-> fields,
     records |-> [i \in 1..Len(rows) |->
                    [f \in fields |->
                        IF f \in DOMAIN rows[i] THEN rows[i][f] ELSE ""]]]

\* faulty variant: a file replaces the earlier file of the same name
GeneratedFilesLastWins(entries, data) ==
    LET all == [i \in 1..Len(entries) |->
                  [filename |-> sanitizeFilename(entries[i].key),
                   content  |-> PapaUnparse([j \in 1..Len(entries[i].rows) |->
                                                  data[entries[i].rows[j]]])]]
        last == { i \in 1..Len(all) :
                    \A j \in (i + 1)..Len(all) :
                        all[j].filename # all[i].filename }
        Nth(k) == CHOOSE i \in last : Cardinality({ j \in last : j <= i }) = k
    IN  [k \in 1..Cardinality(last) |-> all[Nth(k)]]

\* Object.entries(groupedByValue).map(...)
GeneratedFilesOf(entries, data) ==
    [i \in 1..Len(entries) |->
        [filename |-> sanitizeFilename(entries[i].key),
         content  |-> PapaUnparse([j \in 1..Len(entries[i].rows) |->
                                        data[entries[i].rows[j]]])]]

(***************************************************************************)
(* Error messages                                                          *)
(***************************************************************************)
InvalidFileTypeMessage == "Invalid file type. Please upload a CSV file."
NoFileMessage          == "Please select a file to process."
UnknownErrorMessage    == "An unknown error occurred."
ZipErrorMessage ==
    "Could not create the ZIP file. Please try downloading files individually."
\* message of the TypeError raised by acc[groupName].push(row)
PushTypeErrorMessage   == "acc[groupName].push is not a function"

\* faulty variant: the names are joined without their quotes
RECURSIVE JoinUnquoted(_)
JoinUnquoted(names) ==
    IF names = <<>> THEN ""
    ELSE IF Len(names) = 1 THEN names[1]
    ELSE Head(names) \o ", " \o JoinUnquoted(Tail(names))

\* possibleColumnNames.map(name => `'${name}'`).join(', ')
RECURSIVE JoinQuoted(_)
JoinQuoted(names) ==
    IF names = <<>> THEN ""
    ELSE IF Len(names) = 1 THEN "'" \o names[1] \o "'"
    ELSE "'" \o Head(names) \o "', " \o JoinQuoted(Tail(names))

MissingColumnMessage ==
    "CSV must contain one of the following columns: "
        \o JoinQuoted(possibleColumnNames)

\* `Error parsing CSV file on line ${firstError.row}: ${firstError.message}...`
ParseErrorMessage(firstError) ==
    "Error parsing CSV file on line "
        \o (IF "row" \in DOMAIN firstError
            THEN NumberToString(firstError.row) ELSE "undefined")
        \o ": " \o firstError.message \o ". Please check the file format."

\* err instanceof Error ? err.message : 'An unknown error occurred.'
CaughtMessage(reason) ==
    IF reason.instanceofError THEN reason.message ELSE UnknownErrorMessage

(***************************************************************************)
(* State                                                                   *)
(***************************************************************************)
VARIABLES
    sourceFile,          \* useState<File | null>
    generatedFiles,      \* useState<GeneratedFile[]>
    isLoading,           \* useState<boolean>
    isZipping,           \* useState<boolean>
    error,               \* useState<string | null>
    pc,                  \* where the processCsvFile run stands:
                         \*   "idle", "utf8" (first await), "iso" (second await)
    runFile,             \* sourceFile captured by the running processCsvFile
    attempts,            \* parseWithEncoding calls made by the current/last run
    primary,             \* how the UTF-8 attempt settled (PrimaryKind),
                         \*   while the fallback is awaited
    results,             \* local `results` as lines 96-131 read it
    groupingColumnName,  \* local `groupingColumnName`
    groups,              \* Object.entries(groupedByValue), once computed
    outcome,             \* how the current/last run ended
    zipTasks,            \* downloadAllAsZip calls awaiting generateAsync
    zipEntries,          \* entries of the JSZip object of the awaiting call:
                         \*   for each, the position in generatedFiles of the
                         \*   file whose content it holds
    runsInFlight,        \* processCsvFile calls that have not returned
    name,                \* argument of a stand-alone sanitizeFilename call
    filename,            \* its result
    resanitized          \* sanitizeFilename of that result without ".csv"

appVars == << sourceFile, generatedFiles, isLoading, isZipping, error >>
runVars == << pc, runFile, attempts, primary, results, groupingColumnName,
              groups, outcome >>
sanVars == << name, filename, resanitized >>
zipVars == << zipTasks, zipEntries >>
vars    == << appVars, runVars, runsInFlight, zipVars, sanVars >>

\* files the user can hand to handleFileSelect
Files ==
    { [name |-> "dados.CSV", type |-> ""],
      [name |-> "export",    type |-> "text/csv"],
      [name |-> "notas.txt", type |-> "text/plain"],
      [name |-> "lista.csv.xls", type |-> "application/vnd.ms-excel"] }

Init ==
    /\ sourceFile = Null
    /\ generatedFiles = <<>>
    /\ isLoading = FALSE
    /\ isZipping = FALSE
    /\ error = Null
    /\ pc = "idle"
    /\ runFile = Null
    /\ attempts = 0
    /\ primary = Null
    /\ results = Null
    /\ groupingColumnName = Null
    /\ groups = Null
    /\ outcome = "none"
    /\ zipTasks = 0
    /\ zipEntries = {}
    /\ runsInFlight = 0
    /\ name = ""
    /\ filename = Null
    /\ resanitized = Null

(***************************************************************************)
(* handleFileSelect and clearFile                                          *)
(***************************************************************************)
\* faulty variant: every text type is taken for CSV
IsCsvFileOrText(file) ==
    \/ (Len(file.type) >= 5 /\ SubSeq(file.type, 1, 5) = "text/")
    \/ EndsWith(ToLowerCase(file.name), ".csv")

\* FileUpload renders the input and the drop zone only while no file is
\* selected, and the remove button only while one is.
IsCsvFile(file) ==
    ~(file.type # "text/csv" /\ ~EndsWith(ToLowerCase(file.name), ".csv"))

\* the files of the model that pass the test of handleFileSelect
CsvFiles == { file \in Files : IsCsvFile(file) }

handleFileSelect(file) ==
    /\ sourceFile = Null
    /\ UNCHANGED << isLoading, isZipping, runVars, runsInFlight, zipVars,
                    sanVars >>
    /\ IF file \notin CsvFiles
       THEN /\ error' = Some(InvalidFileTypeMessage)
            /\ sourceFile' = Null
            /\ UNCHANGED generatedFiles
       ELSE /\ error' = Null
            /\ generatedFiles' = <<>>
            /\ sourceFile' = Some(file)

clearFile ==
    /\ sourceFile # Null
    /\ sourceFile' = Null
    /\ generatedFiles' = <<>>
    /\ error' = Null
    /\ UNCHANGED << isLoading, isZipping, runVars, runsInFlight, zipVars,
                    sanVars >>

(***************************************************************************)
(* processCsvFile                                                          *)
(***************************************************************************)
\* faulty variant: the guard comes after the reset of the generated files
processCsvFileNoFileAfterReset ==
    /\ sourceFile = Null
    /\ error' = Some(NoFileMessage)
    /\ generatedFiles' = <<>>
    /\ UNCHANGED << sourceFile, isLoading, isZipping, runVars, runsInFlight,
                    zipVars, sanVars >>

\* the call with no file selected (the guard of lines 40-43)
processCsvFileNoFile ==
    /\ sourceFile = Null
    /\ error' = Some(NoFileMessage)
    /\ UNCHANGED << sourceFile, generatedFiles, isLoading, isZipping,
                    runVars, runsInFlight, zipVars, sanVars >>

\* faulty variant: the call does not reset generatedFiles
processCsvFileStartKeepingFiles ==
    /\ sourceFile # Null
    /\ ~isLoading
    /\ isLoading' = TRUE
    /\ error' = Null
    /\ pc' = "utf8"
    /\ runFile' = sourceFile
    /\ attempts' = 1
    /\ primary' = Null
    /\ results' = Null
    /\ groupingColumnName' = Null
    /\ groups' = Null
    /\ outcome' = "running"
    /\ runsInFlight' = runsInFlight + 1
    /\ UNCHANGED << sourceFile, generatedFiles, isZipping, zipVars, sanVars >>

\* the split button is disabled while !sourceFile || isLoading; the call
\* runs up to the first await
processCsvFileStart ==
    /\ sourceFile # Null
    /\ ~isLoading
    /\ isLoading' = TRUE
    /\ error' = Null
    /\ generatedFiles' = <<>>
    /\ pc' = "utf8"
    /\ runFile' = sourceFile
    /\ attempts' = 1
    /\ primary' = Null
    /\ results' = Null
    /\ groupingColumnName' = Null
    /\ groups' = Null
    /\ outcome' = "running"
    /\ runsInFlight' = runsInFlight + 1
    /\ UNCHANGED << sourceFile, isZipping, zipVars, sanVars >>

\* does the first row hold one of the candidate columns
HasCandidate(row) ==
    \E i \in 1..Len(possibleColumnNames) : possibleColumnNames[i] \in DOMAIN row

\* what kind of result the UTF-8 attempt settled with
PrimaryKind(out) ==
    IF ~out.resolved THEN "rejected"
    ELSE IF Len(out.data) = 0
         THEN (IF Len(out.errors) = 0 THEN "noRows" ELSE "noRowsWithErrors")
    ELSE IF HasCandidate(out.data[1]) THEN "usable" ELSE "noHeader"

\* faulty variant: a result without rows always reaches the catch block
PrimaryThrowsWithoutRows(out) ==
    \/ ~out.resolved
    \/ findGroupingColumn(out.data) = Null
    \/ (Len(out.errors) > 0 /\ Len(out.data) = 0)

\* the inner try: does the settled UTF-8 attempt reach the catch block
PrimaryThrows(out) ==
    \/ ~out.resolved
    \/ (findGroupingColumn(out.data) = Null /\ Len(out.data) > 0)
    \/ (Len(out.errors) > 0 /\ Len(out.data) = 0)

\* catch (err) { setError(...) } finally { setIsLoading(false) }
RunFails(kind, message) ==
    /\ error' = Some(message)
    /\ outcome' = kind
    /\ UNCHANGED generatedFiles

\* faulty variant: parse errors are fatal whether or not rows were produced
AnyParseErrorIsFatal(res) == Len(res.errors) > 0

\* results.errors.length > 0 and not results.data.length > 0
ParseErrorsAreFatal(res) == Len(res.errors) > 0 /\ Len(res.data) = 0

\* results.errors[0]
FirstError(errors) == errors[1]

\* lines 96-131 on the result finally used
Continue(res) ==
    /\ results' = Some(res)
    /\ IF ParseErrorsAreFatal(res)
       THEN /\ RunFails("ParseError", ParseErrorMessage(FirstError(res.errors)))
            /\ groupingColumnName' = Null
            /\ groups' = Null
       ELSE LET col == findGroupingColumn(res.data) IN
            /\ groupingColumnName' = col
            /\ IF col = Null
               THEN /\ RunFails("SchemaError", MissingColumnMessage)
                    /\ groups' = Null
               ELSE LET acc == groupedByValue(res.data, The(col)) IN
                    IF acc.threw
                    THEN /\ RunFails("TypeError", PushTypeErrorMessage)
                         /\ groups' = Null
                    ELSE LET entries == ObjectEntries(acc.props) IN
                         /\ groups' = Some(entries)
                         /\ generatedFiles' = GeneratedFilesOf(entries, res.data)
                         /\ outcome' = "success"
                         /\ UNCHANGED error

\* the UTF-8 attempt settles; the continuation runs to the next await or to
\* the end of the function
PrimarySettles(out) ==
    /\ pc = "utf8"
    /\ IF PrimaryThrows(out)
       THEN /\ pc' = "iso"
            /\ attempts' = attempts + 1
            /\ primary' = Some(PrimaryKind(out))
            /\ UNCHANGED << appVars, runFile, results, groupingColumnName,
                            groups, outcome, runsInFlight >>
       ELSE /\ pc' = "idle"
            /\ isLoading' = FALSE
            /\ runsInFlight' = runsInFlight - 1
            /\ Continue(out)
            /\ UNCHANGED << sourceFile, isZipping, runFile, attempts, primary >>
    /\ UNCHANGED << zipVars, sanVars >>

\* faulty variant: isLoading is reset on the success path only
FallbackSettlesWithoutFinally(out) ==
    /\ pc = "iso"
    /\ pc' = "idle"
    /\ primary' = Null
    /\ runsInFlight' = runsInFlight - 1
    /\ IF out.resolved
       THEN /\ Continue(out)
            /\ isLoading' = (outcome' # "success")
       ELSE /\ RunFails("Rejected", CaughtMessage(out.reason))
            /\ UNCHANGED << isLoading, results, groupingColumnName, groups >>
    /\ UNCHANGED << sourceFile, isZipping, runFile, attempts, zipVars, sanVars >>

\* the ISO-8859-1 attempt settles
FallbackSettles(out) ==
    /\ pc = "iso"
    /\ pc' = "idle"
    /\ isLoading' = FALSE
    /\ primary' = Null
    /\ runsInFlight' = runsInFlight - 1
    /\ IF out.resolved
       THEN Continue(out)
       ELSE /\ RunFails("Rejected", CaughtMessage(out.reason))
            /\ UNCHANGED << results, groupingColumnName, groups >>
    /\ UNCHANGED << sourceFile, isZipping, runFile, attempts, zipVars, sanVars >>

(***************************************************************************)
(* downloadAllAsZip                                                        *)
(***************************************************************************)
\* JSZip's file(name, data) replaces the entry already stored under that name:
\* the entry of a name holds the last file added with it
ZipFile(files) ==
    { i \in 1..Len(files) :
        \A j \in (i + 1)..Len(files) : files[j].filename # files[i].filename }

\* faulty variant: the zip button stays enabled while isZipping
downloadAllAsZipStartWhileZipping ==
    /\ Len(generatedFiles) # 0
    /\ zipTasks < 3
    /\ isZipping' = TRUE
    /\ zipTasks' = zipTasks + 1
    /\ zipEntries' = ZipFile(generatedFiles)
    /\ UNCHANGED << sourceFile, generatedFiles, isLoading, error, runVars,
                    runsInFlight, sanVars >>

\* the zip button is rendered while generatedFiles.length > 0 and disabled
\* while isZipping; the call runs up to the await
downloadAllAsZipStart ==
    /\ Len(generatedFiles) # 0
    /\ ~isZipping
    /\ isZipping' = TRUE
    /\ zipTasks' = zipTasks + 1
    /\ zipEntries' = ZipFile(generatedFiles)
    /\ UNCHANGED << sourceFile, generatedFiles, isLoading, error, runVars,
                    runsInFlight, sanVars >>

\* the call throws before it reaches the await (JSZip is a global loaded from
\* a CDN): catch and finally run in the same call
downloadAllAsZipThrows ==
    /\ Len(generatedFiles) # 0
    /\ ~isZipping
    /\ error' = Some(ZipErrorMessage)
    /\ isZipping' = FALSE
    /\ UNCHANGED << sourceFile, generatedFiles, isLoading, runVars,
                    runsInFlight, zipVars, sanVars >>

\* zip.generateAsync resolves: the archive is saved
ZipResolves ==
    /\ zipTasks > 0
    /\ zipTasks' = zipTasks - 1
    /\ zipEntries' = {}
    /\ isZipping' = FALSE
    /\ UNCHANGED << sourceFile, generatedFiles, isLoading, error, runVars,
                    runsInFlight, sanVars >>

\* faulty variant: the failure clears the generated files
ZipRejectsClearingFiles ==
    /\ zipTasks > 0
    /\ zipTasks' = zipTasks - 1
    /\ zipEntries' = {}
    /\ error' = Some(ZipErrorMessage)
    /\ generatedFiles' = <<>>
    /\ isZipping' = FALSE
    /\ UNCHANGED << sourceFile, isLoading, runVars, runsInFlight, sanVars >>

\* zip.generateAsync rejects
ZipRejects ==
    /\ zipTasks > 0
    /\ zipTasks' = zipTasks - 1
    /\ zipEntries' = {}
    /\ error' = Some(ZipErrorMessage)
    /\ isZipping' = FALSE
    /\ UNCHANGED << sourceFile, generatedFiles, isLoading, runVars,
                    runsInFlight, sanVars >>

Next ==
    \/ \E file \in Files : handleFileSelect(file)
    \/ clearFile
    \/ processCsvFileNoFile
    \/ processCsvFileStart
    \/ \E out \in ParseOutcomes : PrimarySettles(out)
    \/ \E out \in ParseOutcomes : FallbackSettles(out)
    \/ downloadAllAsZipStart
    \/ downloadAllAsZipThrows
    \/ ZipResolves
    \/ ZipRejects

Spec == Init /\ [][Next]_vars

\* Papa.parse calls complete or error for every parse it was handed, and the
\* promise of zip.generateAsync settles: no await lasts forever.  Every
\* settling step of an await is enabled exactly while the await lasts and
\* ends it, so weak fairness of one of them is weak fairness of them all.
SpecFair ==
    /\ Spec
    /\ WF_vars(PrimarySettles(Rejected(ReadFailure)))
    /\ WF_vars(FallbackSettles(Rejected(ReadFailure)))
    /\ WF_vars(ZipRejects)

(***************************************************************************)
(* sanitizeFilename on its own: the key is drawn from all strings of at    *)
(* most MaxLen characters over KeyChars                                    *)
(***************************************************************************)
KeyChars == { "A", "b", "7", " ", "\t", "-", "_", "&", "é", "." }

RECURSIVE StringsUpTo(_)
StringsUpTo(n) ==
    IF n = 0 THEN { "" }
    ELSE LET shorter == StringsUpTo(n - 1) IN
         shorter \cup { s \o c : s \in shorter, c \in KeyChars }

\* the filename without its ".csv"
BaseOf(file) == SubSeq(file, 1, Len(file) - 4)

InitSanitize ==
    /\ sourceFile = Null
    /\ generatedFiles = <<>>
    /\ isLoading = FALSE
    /\ isZipping = FALSE
    /\ error = Null
    /\ pc = "idle"
    /\ runFile = Null
    /\ attempts = 0
    /\ primary = Null
    /\ results = Null
    /\ groupingColumnName = Null
    /\ groups = Null
    /\ outcome = "none"
    /\ zipTasks = 0
    /\ zipEntries = {}
    /\ runsInFlight = 0
    /\ name \in StringsUpTo(MaxLen)
    /\ filename = Null
    /\ resanitized = Null

SanitizeKey ==
    /\ filename = Null
    /\ filename' = Some(sanitizeFilename(name))
    /\ UNCHANGED << appVars, runVars, runsInFlight, zipVars, name,
                    resanitized >>

SanitizeBase ==
    /\ filename # Null
    /\ resanitized = Null
    /\ resanitized' = Some(sanitizeFilename(BaseOf(The(filename))))
    /\ UNCHANGED << appVars, runVars, runsInFlight, zipVars, name,
                    filename >>

NextSanitize == SanitizeKey \/ SanitizeBase

SpecSanitize == InitSanitize /\ [][NextSanitize]_vars

(***************************************************************************)
(* Properties                                                              *)
(***************************************************************************)
\* the step on which a processCsvFile run returns
RunEnds == pc # "idle" /\ pc' = "idle"

\* the run has ended and lines 96-131 read a parse result whose first row
\* holds a candidate column
Partitioned ==
    /\ pc = "idle"
    /\ results # Null
    /\ Len(The(results).data) > 0
    /\ HasCandidate(The(results).data[1])

RECURSIVE AllWhitespace(_)
AllWhitespace(s) ==
    IF s = "" THEN TRUE ELSE IsWhitespace(Head(s)) /\ AllWhitespace(Tail(s))

\* the grouping value of the row is missing, empty or white space only
NoGroupingValue(row, col) ==
    col \notin DOMAIN row \/ AllWhitespace(row[col])

\* the positions (group, place) at which row r occurs in the groups
Occurrences(entries, r) ==
    { <<g, k>> \in (1..Len(entries)) \X (1..MaxRows + 1) :
        k <= Len(entries[g].rows) /\ entries[g].rows[k] = r }

RECURSIVE TotalRows(_)
TotalRows(entries) ==
    IF entries = <<>> THEN 0
    ELSE Len(Head(entries).rows) + TotalRows(Tail(entries))

\* C1: whenever the rows finally used start with a row that holds a
\* candidate column, the run does not fail and the groups conserve the rows:
\* a row is in at most one group, it is in none exactly when its grouping
\* value is missing, empty or white space only, and grouped + dropped rows
\* = input rows.
PartitionConservesRows ==
    Partitioned =>
        LET data    == The(results).data
            col     == The(groupingColumnName)
            dropped == { r \in 1..Len(data) : NoGroupingValue(data[r], col) }
        IN  /\ outcome = "success"
            /\ groups # Null
            /\ \A r \in 1..Len(data) :
                  /\ Cardinality(Occurrences(The(groups), r)) <= 1
                  /\ (Occurrences(The(groups), r) = {}) <=> (r \in dropped)
            /\ TotalRows(The(groups)) + Cardinality(dropped) = Len(data)

\* C2: every row of a group has, after trimming, exactly the group's key as
\* its grouping value, and no group separates two rows whose trimmed
\* grouping values are equal.
GroupKeyIsTrimmedValue ==
    (Partitioned /\ groups # Null) =>
        LET data    == The(results).data
            col     == The(groupingColumnName)
            entries == The(groups)
            InGroup(g, r) == \E k \in 1..Len(entries[g].rows) : entries[g].rows[k] = r
        IN  /\ \A g \in 1..Len(entries) : \A k \in 1..Len(entries[g].rows) :
                  LET row == data[entries[g].rows[k]] IN
                  /\ col \in DOMAIN row
                  /\ Trim(row[col]) = entries[g].key
            /\ \A r1, r2 \in 1..Len(data) :
                  (/\ col \in DOMAIN data[r1]
                   /\ col \in DOMAIN data[r2]
                   /\ Trim(data[r1][col]) = Trim(data[r2][col]))
                  => \A g \in 1..Len(entries) : InGroup(g, r1) <=> InGroup(g, r2)

\* C2 witness: a run has succeeded with a group of two rows whose raw
\* grouping values differ
TwoRawValuesOneGroup ==
    /\ Partitioned
    /\ outcome = "success"
    /\ \E g \in 1..Len(The(groups)) :
          LET rows == The(groups)[g].rows
              col  == The(groupingColumnName) IN
          /\ Len(rows) = 2
          /\ The(results).data[rows[1]][col] # The(results).data[rows[2]][col]

\* C3: the groups, and with them the generated files, come in the order in
\* which each key first occurs in the rows, and the rows of a group keep
\* their order.
GroupsInFirstOccurrenceOrder ==
    (Partitioned /\ groups # Null) =>
        LET entries == The(groups) IN
        /\ \A g, h \in 1..Len(entries) :
              g < h => entries[g].rows[1] < entries[h].rows[1]
        /\ \A g \in 1..Len(entries) : \A j, k \in 1..Len(entries[g].rows) :
              j < k => entries[g].rows[j] < entries[g].rows[k]
        /\ (outcome = "success" /\ generatedFiles # <<>>) =>
              /\ Len(generatedFiles) = Len(entries)
              /\ \A g \in 1..Len(entries) :
                    generatedFiles[g].filename = sanitizeFilename(entries[g].key)

\* how the UTF-8 attempt settled, read off the step on which it settles
SettledKind ==
    IF primary' # Null THEN The(primary') ELSE PrimaryKind(The(results'))

\* C4 as stated: the fallback is attempted exactly when the UTF-8 attempt
\* rejects, produced no rows (with or without parse errors) or produced
\* rows whose first row holds no candidate column.
FallbackOnEveryInconclusivePrimary ==
    [][(pc = "utf8" /\ pc' # "utf8") =>
          ((pc' = "iso" /\ attempts' = 2)
              <=> SettledKind \in {"rejected", "noRows", "noRowsWithErrors", "noHeader"})
      ]_vars

\* C4 amended: the fallback is attempted exactly when the UTF-8 attempt
\* rejects, produced no rows together with parse errors, or produced rows
\* whose first row holds no candidate column; it is not attempted when the
\* first row holds a candidate column nor when there are neither rows nor
\* parse errors.
FallbackOnInconclusivePrimary ==
    [][(pc = "utf8" /\ pc' # "utf8") =>
          /\ (pc' = "iso" /\ attempts' = 2)
                <=> SettledKind \in {"rejected", "noRowsWithErrors", "noHeader"}
          /\ (pc' = "idle" /\ attempts' = 1)
                <=> SettledKind \in {"usable", "noRows"}
      ]_vars

\* C4 witness: the fallback is awaited after a UTF-8 attempt whose rows
\* hold no candidate column
AwaitingFallbackAfterNoHeader ==
    pc = "iso" /\ attempts = 2 /\ primary = Some("noHeader")

\* C5: a run makes at most two parse attempts, and a fallback attempt that
\* follows a UTF-8 attempt without a matching header and returns rows with a
\* candidate header ends the run in success, with the files built from the
\* fallback rows.
FallbackResultDecides ==
    [][RunEnds =>
          /\ attempts' <= 2
          /\ (/\ pc = "iso"
              /\ primary = Some("noHeader")
              /\ results' # Null
              /\ Len(The(results').data) > 0
              /\ HasCandidate(The(results').data[1]))
             => /\ outcome' = "success"
                /\ groups' # Null
                /\ generatedFiles' = GeneratedFilesOf(The(groups'), The(results').data)
      ]_vars

ClaimedMissingColumnMessage ==
    "CSV must contain one of the following columns: 'Nome da operadora:', 'Nome do restaurante:', 'Nome da empresa:'"

\* C6 as stated: whenever the result finally used has no rows, or a first
\* row without candidate column, the run fails with the message that lists
\* the three names.
MissingColumnAlwaysReported ==
    [][(RunEnds /\ results' # Null) =>
          LET res == The(results') IN
          (Len(res.data) = 0 \/ ~HasCandidate(res.data[1]))
             => /\ outcome' # "success"
                /\ error' = Some(ClaimedMissingColumnMessage)
      ]_vars

\* C6 amended: whenever the result finally used has neither rows nor parse
\* errors, or has rows and a first row without candidate column, the run
\* fails with the message that lists the three names.
MissingColumnReported ==
    [][(RunEnds /\ results' # Null) =>
          LET res == The(results') IN
          (\/ (Len(res.data) = 0 /\ Len(res.errors) = 0)
           \/ (Len(res.data) > 0 /\ ~HasCandidate(res.data[1])))
             => /\ outcome' = "SchemaError"
                /\ error' = Some(ClaimedMissingColumnMessage)
      ]_vars

\* C6 witness: a run over rows without candidate column has failed with
\* the message
FailedForMissingColumn ==
    /\ pc = "idle"
    /\ outcome = "SchemaError"
    /\ results # Null
    /\ Len(The(results).data) > 0
    /\ error = Some(ClaimedMissingColumnMessage)

ClaimedParseErrorMessage(e) ==
    "Error parsing CSV file on line "
        \o (IF "row" \in DOMAIN e THEN NumberToString(e.row) ELSE "undefined")
        \o ": " \o e.message \o ". Please check the file format."

\* C7: when the result finally used carries parse errors, they are not
\* fatal if there is a data row (the run goes on to the grouping column,
\* never reports a parse error, and sets no error when it succeeds), and
\* without data rows the run fails with the message built from the first
\* error.
ParseErrorsFatalOnlyWithoutRows ==
    [][(RunEnds /\ results' # Null /\ Len(The(results').errors) > 0) =>
          LET res == The(results') IN
          IF Len(res.data) > 0
          THEN /\ outcome' \in {"success", "SchemaError", "TypeError"}
               /\ HasCandidate(res.data[1]) <=> groupingColumnName' # Null
               /\ \A i \in 1..Len(res.errors) :
                     error' # Some(ClaimedParseErrorMessage(res.errors[i]))
               /\ outcome' = "success" => (error' = error /\ groups' # Null)
          ELSE /\ outcome' = "ParseError"
               /\ error' = Some(ClaimedParseErrorMessage(res.errors[1]))
      ]_vars

\* C7 witness: a run whose result carried parse errors next to data rows
\* has succeeded and shows files and no error
SucceededDespiteParseErrors ==
    /\ pc = "idle"
    /\ outcome = "success"
    /\ results # Null
    /\ Len(The(results).errors) > 0
    /\ generatedFiles # <<>>
    /\ error = Null

\* C8: a run that ends in a ParseError or SchemaError leaves generatedFiles
\* empty, and generatedFiles becomes non-empty only on the step that ends a
\* run in success.
FailedRunLeavesNoFiles ==
    [][/\ (RunEnds /\ outcome' \in {"ParseError", "SchemaError"})
             => generatedFiles' = <<>>
       /\ (generatedFiles' # generatedFiles /\ generatedFiles' # <<>>)
             => (RunEnds /\ outcome' = "success")
      ]_vars

\* C8 witness: a run has ended in a ParseError or SchemaError with a file
\* still selected
RunFailedOnParseOrSchema ==
    /\ pc = "idle"
    /\ outcome \in {"ParseError", "SchemaError"}
    /\ sourceFile # Null
    /\ generatedFiles = <<>>

ClaimedCandidates ==
    << "Nome da operadora:", "Nome do restaurante:", "Nome da empresa:" >>

\* C9: the grouping column is the first name of the list that is a key of
\* the first row, whatever the value under that key; without rows, or
\* without such a key in the first row, there is none.
GroupingColumnIsFirstCandidateKey ==
    (results # Null /\ outcome # "ParseError") =>
        LET data == The(results).data IN
        IF Len(data) = 0 THEN groupingColumnName = Null
        ELSE /\ \A i \in 1..Len(ClaimedCandidates) :
                   groupingColumnName = Some(ClaimedCandidates[i])
                     <=> /\ ClaimedCandidates[i] \in DOMAIN data[1]
                         /\ \A j \in 1..(i - 1) :
                               ClaimedCandidates[j] \notin DOMAIN data[1]
             /\ groupingColumnName = Null
                   <=> \A i \in 1..Len(ClaimedCandidates) :
                          ClaimedCandidates[i] \notin DOMAIN data[1]

\* C9 witness: the first row holds two candidates, the earlier one with an
\* empty cell, and the earlier one is the grouping column
EarlierCandidateWithEmptyCell ==
    /\ results # Null
    /\ Len(The(results).data) > 0
    /\ LET row == The(results).data[1] IN
       /\ ClaimedCandidates[2] \in DOMAIN row
       /\ ClaimedCandidates[3] \in DOMAIN row
       /\ row[ClaimedCandidates[2]] = ""
    /\ groupingColumnName = Some(ClaimedCandidates[2])

RECURSIVE HasWhitespace(_)
HasWhitespace(s) ==
    IF s = "" THEN FALSE ELSE IsWhitespace(Head(s)) \/ HasWhitespace(Tail(s))

RECURSIVE WithoutUnderscores(_)
WithoutUnderscores(s) ==
    IF s = "" THEN ""
    ELSE (IF Head(s) = "_" THEN "" ELSE Head(s)) \o WithoutUnderscores(Tail(s))

\* C10 as stated: sanitizeFilename applied to the base of its own result
\* gives that result again.
SanitizeIdempotent ==
    resanitized # Null => resanitized = filename

\* C10 amended: sanitizeFilename applied to the base of its own result gives
\* that result with every underscore removed; it gives the result itself
\* exactly for the keys that contain no white space.
SanitizeIdempotentWithoutWhitespace ==
    resanitized # Null =>
        /\ The(resanitized) = WithoutUnderscores(The(filename))
        /\ (resanitized = filename) <=> ~HasWhitespace(name)

\* C10 witness: a key with a letter and white space has been sanitized twice
\* and the second filename differs from the first
ResanitizedKeyWithWhitespace ==
    /\ resanitized # Null
    /\ HasWhitespace(name)
    /\ Len(The(filename)) > Len(".csv") + 1
    /\ resanitized # filename

\* the step on which a processCsvFile run returns with its files
RunSucceeds == RunEnds /\ outcome' = "success"

\* the rows of group g as Papa.unparse is handed them
RowsOf(entries, data, g) ==
    [k \in 1..Len(entries[g].rows) |-> data[entries[g].rows[k]]]

\* C11 as claimed: the files of a successful run have pairwise distinct
\* names; of the groups whose keys sanitize to one name only the last has a
\* file in the list, with that group's content.
LastGroupOverwritesInOutput ==
    [][RunSucceeds =>
          LET entries == The(groups')
              data    == The(results').data
              files   == generatedFiles'
              NameOf(g) == sanitizeFilename(entries[g].key)
              last == { g \in 1..Len(entries) :
                          \A h \in (g + 1)..Len(entries) : NameOf(h) # NameOf(g) }
          IN  /\ \A i, j \in 1..Len(files) :
                    i # j => files[i].filename # files[j].filename
              /\ \A g \in last : \E i \in 1..Len(files) :
                    /\ files[i].filename = NameOf(g)
                    /\ files[i].content = PapaUnparse(RowsOf(entries, data, g))
    ]_vars

\* C11: a successful run lists one file per group, in group order, named by
\* the sanitized key and holding that group's rows, so the names are
\* pairwise distinct whenever the sanitized keys are and two groups whose
\* keys sanitize to one name both keep their file in the list; it is the
\* archive of downloadAllAsZip that holds one entry per name, the entry of
\* the last file listed with it.
EveryGroupKeepsItsFile ==
    /\ [][RunSucceeds =>
            LET entries == The(groups')
                data    == The(results').data
                files   == generatedFiles'
            IN  /\ Len(files) = Len(entries)
                /\ \A g \in 1..Len(entries) :
                      /\ files[g].filename = sanitizeFilename(entries[g].key)
                      /\ files[g].content = PapaUnparse(RowsOf(entries, data, g))
                /\ \A g, h \in 1..Len(entries) :
                      sanitizeFilename(entries[g].key)
                          # sanitizeFilename(entries[h].key)
                      => files[g].filename # files[h].filename
       ]_vars
    /\ [][downloadAllAsZipStart =>
            /\ zipEntries' \subseteq 1..Len(generatedFiles)
            /\ Cardinality(zipEntries')
                  = Cardinality({ generatedFiles[i].filename :
                                    i \in 1..Len(generatedFiles) })
            /\ \A i \in zipEntries' : \A j \in 1..Len(generatedFiles) :
                  generatedFiles[j].filename = generatedFiles[i].filename
                  => j <= i
       ]_vars

\* C11 witness: two files of one name and different content are listed, and
\* an archive is being built that holds the later one only
SameNameListedTwice ==
    /\ outcome = "success"
    /\ zipTasks = 1
    /\ \E i, j \in 1..Len(generatedFiles) :
          /\ i < j
          /\ generatedFiles[i].filename = generatedFiles[j].filename
          /\ generatedFiles[i].content # generatedFiles[j].content
          /\ i \notin zipEntries
          /\ j \in zipEntries

ClaimedZipErrorMessage ==
    "Could not create the ZIP file. Please try downloading files individually."

\* C12: a step on which downloadAllAsZip fails, before or at its await,
\* leaves the generated files and the selected file as they were and sets
\* the error to the ZIP message.
ZipFailureKeepsFiles ==
    [][(ZipRejects \/ downloadAllAsZipThrows) =>
          /\ generatedFiles' = generatedFiles
          /\ error' = Some(ClaimedZipErrorMessage)
          /\ sourceFile' = sourceFile
    ]_vars

\* C12 witness: the archive has failed and the files are still listed
FilesListedAfterZipFailure ==
    /\ error = Some(ClaimedZipErrorMessage)
    /\ zipTasks = 0
    /\ ~isZipping
    /\ generatedFiles # <<>>
    /\ sourceFile # Null

\* C13: never are two downloadAllAsZip tasks in flight; a task starts only
\* while none is in flight and when one ends none is left waiting; isZipping
\* is true exactly while a task is in flight; and a task in flight
\* eventually ends, by success or by failure, with isZipping false.
ZipTaskMutuallyExclusive ==
    /\ [](zipTasks <= 1)
    /\ [](isZipping <=> zipTasks = 1)
    /\ [][/\ zipTasks' > zipTasks => (zipTasks = 0 /\ ~isZipping)
          /\ zipTasks' < zipTasks => (zipTasks' = 0 /\ ~isZipping')
       ]_vars
    /\ (isZipping ~> (~isZipping /\ zipTasks = 0))

\* C13 witness: a task is in flight and the files it was started on are
\* still listed, so only the busy flag keeps a second task from starting
ZipTaskInFlight ==
    /\ isZipping
    /\ zipTasks = 1
    /\ Len(generatedFiles) # 0

ClaimedInvalidFileTypeMessage == "Invalid file type. Please upload a CSV file."

\* the media type is not "text/csv" and the name does not end in ".csv",
\* whatever the case of its letters
NotCsv(file) ==
    /\ file.type # "text/csv"
    /\ ~EndsWith(ToLowerCase(file.name), ".csv")

\* the files of the model that are not CSV
NotCsvFiles == { file \in Files : NotCsv(file) }

\* C14: a handleFileSelect step handed a file that is not CSV sets the error
\* to the invalid-file-type message, leaves no file selected and starts no
\* parse.
InvalidFileRejected ==
    [][\A file \in NotCsvFiles :
          handleFileSelect(file) =>
              /\ error' = Some(ClaimedInvalidFileTypeMessage)
              /\ sourceFile' = Null
              /\ pc' = pc
              /\ attempts' = attempts
              /\ runsInFlight' = runsInFlight
              /\ isLoading' = isLoading
    ]_vars

\* C14 witness: a file that is not CSV was rejected and nothing was parsed
InvalidFileWasRejected ==
    /\ error = Some(ClaimedInvalidFileTypeMessage)
    /\ sourceFile = Null
    /\ pc = "idle"
    /\ attempts = 0
    /\ ~isLoading

\* C15: a processCsvFile step taken while no file is selected raises an
\* error and does nothing else: no parse attempt is started, isLoading is
\* not set and the generated files are left as they were.
NoFileCallOnlyRaisesError ==
    [][processCsvFileNoFile =>
          /\ error' # Null
          /\ pc' = pc
          /\ attempts' = attempts
          /\ runsInFlight' = runsInFlight
          /\ isLoading' = isLoading
          /\ generatedFiles' = generatedFiles
    ]_vars

\* C15 witness: processCsvFile was called with no file selected while files
\* were listed, and they still are
NoFileCallWithFilesListed ==
    /\ sourceFile = Null
    /\ error = Some(NoFileMessage)
    /\ pc = "idle"
    /\ ~isLoading
    /\ generatedFiles # <<>>

\* the base the claim describes, read off the key in one pass: a character
\* that is removed does not interrupt a run of white space
RECURSIVE ClaimedBase(_, _)
ClaimedBase(s, inRun) ==
    IF s = "" THEN ""
    ELSE LET c == Head(s) IN
         IF IsWhitespace(c)
         THEN (IF inRun THEN "" ELSE "_") \o ClaimedBase(Tail(s), TRUE)
         ELSE IF IsAsciiLetter(c) \/ IsDigit(c) \/ c = "-"
         THEN c \o ClaimedBase(Tail(s), FALSE)
         ELSE ClaimedBase(Tail(s), inRun)

\* C16: the filename of a key is the key without the characters other than
\* ASCII letters, digits, white space and hyphens, with every maximal run of
\* white space turned into one underscore, followed by ".csv"; its base
\* holds only ASCII letters, digits, hyphens and underscores and never two
\* underscores in a row.
SanitizedAsClaimed ==
    filename # Null =>
        LET base == BaseOf(The(filename)) IN
        /\ The(filename) = ClaimedBase(name, FALSE) \o ".csv"
        /\ \A i \in 1..Len(base) :
              LET c == SubSeq(base, i, i) IN
              IsAsciiLetter(c) \/ IsDigit(c) \/ c = "-" \/ c = "_"
        /\ \A i \in 1..(Len(base) - 1) : SubSeq(base, i, i + 1) # "__"

\* C16 witness: a key made of a removed character between two white space
\* characters has been sanitized, and all that is left is one underscore
WhitespaceRunAroundRemovedChar ==
    /\ filename = Some("_.csv")
    /\ Len(name) = 3
    /\ IsWhitespace(SubSeq(name, 1, 1))
    /\ ~IsKeptChar(SubSeq(name, 2, 2))
    /\ IsWhitespace(SubSeq(name, 3, 3))

\* C17: at most one processCsvFile run is in flight and isLoading is true
\* exactly while one is; a run returns with isLoading false and either with
\* its files set and the error untouched, or with an error set and no files;
\* and a run in flight eventually returns.
RunTerminatesOneWay ==
    /\ [](runsInFlight <= 1)
    /\ [](isLoading <=> runsInFlight = 1)
    /\ [][RunEnds =>
            /\ ~isLoading'
            /\ runsInFlight' = 0
            /\ \/ /\ outcome' = "success"
                  /\ groups' # Null
                  /\ Len(generatedFiles') = Len(The(groups'))
                  /\ error' = error
               \/ /\ outcome' \in { "ParseError", "SchemaError", "TypeError",
                                    "Rejected" }
                  /\ error' # Null
                  /\ generatedFiles' = <<>>
       ]_vars
    /\ (isLoading ~> (~isLoading /\ pc = "idle"))

\* C17 witness: a run is awaiting its second parse attempt
RunInFlightOnFallback ==
    /\ isLoading
    /\ runsInFlight = 1
    /\ pc = "iso"
    /\ attempts = 2

\* C18: whenever generated files are listed, a file is selected and it is
\* the file the run that produced them was started on.
FilesListedAreOfSelectedFile ==
    generatedFiles # <<>> =>
        /\ sourceFile # Null
        /\ sourceFile = runFile

\* C19: whenever the rows finally used start with a row that holds a
\* candidate column, the run succeeds and every trimmed grouping value that
\* is not empty, whatever it is, is the key of exactly one group, which
\* holds exactly the rows with that value.
EveryKeyGetsItsGroup ==
    Partitioned =>
        LET data  == The(results).data
            col   == The(groupingColumnName)
            keyed == { r \in 1..Len(data) : ~NoGroupingValue(data[r], col) }
        IN  /\ outcome = "success"
            /\ groups # Null
            /\ \A r \in keyed :
                  LET with == { g \in 1..Len(The(groups)) :
                                  The(groups)[g].key = Trim(data[r][col]) }
                  IN  /\ Cardinality(with) = 1
                      /\ \A g \in with :
                            { The(groups)[g].rows[k] :
                                k \in 1..Len(The(groups)[g].rows) }
                            = { q \in keyed :
                                  Trim(data[q][col]) = Trim(data[r][col]) }
====
